---------------------------- MODULE Spec2Model ----------------------------
(***************************************************************************)
(* A model of commitizen's commit-message check:                           *)
(*   commitizen/cz/base.py      BaseCommitizen.validate_commit_message,    *)
(*                              BaseCommitizen.format_exception_message    *)
(*   tests/conftest.py          ValidationCz (a custom validator plugin),  *)
(*                              MockPlugin                                 *)
(*   commitizen/commands/check.py   Check.__init__, __call__,              *)
(*                              _get_commits, _filter_comments             *)
(*                                                                         *)
(* Text is a sequence of characters, so that prefixes, lines, stripping    *)
(* and substring search are computed character by character as Python's    *)
(* str methods compute them.  A character is a one-character string; a     *)
(* character that cannot be written in a TLA+ string is the string of its  *)
(* Python escape: "\\x0b" is the one character U+000B, "\\u0661" the one     *)
(* character U+0661.  An optional value (Python's None or a value) is a    *)
(* sequence of length 0 or 1.                                              *)
(***************************************************************************)
EXTENDS Integers, Sequences, FiniteSets, TLC

VARIABLES
    \* Check (commands/check.py): one run of the command
    pc,           \* position of the run
    arguments,    \* the flags given by the user (a dict in the code)
    settings,     \* config.settings
    stdin,        \* sys.stdin: whether it is a terminal, and its text
    self,         \* the fields __init__ sets on the Check object
    cz,           \* the plugin factory.commiter_factory(config) returns
    commits,      \* __call__'s local commits
    pattern,      \* __call__'s local pattern
    checked,      \* commits the comprehension has validated so far
    ill_formated_commits,
    raised,       \* the exception raised, if any: its class and message
    output,       \* what out.success has printed
    \* one application of validate_commit_message
    vPc, vIn, vOut,
    \* one application of Check._filter_comments
    fPc, fIn, fOut,
    fAgain,       \* _filter_comments applied to its own result
    \* one application of format_exception_message
    rPc, rIn, rOut

checkVars == <<pc, arguments, settings, stdin, self, cz, commits, pattern,
               checked, ill_formated_commits, raised, output>>
validateVars == <<vPc, vIn, vOut>>
filterVars == <<fPc, fIn, fOut, fAgain>>
formatVars == <<rPc, rIn, rOut>>
vars == <<checkVars, validateVars, filterVars, formatVars>>

---------------------------------------------------------------------------
(* Optional values *)

None == <<>>
Some(x) == <<x>>
IsNone(o) == o = <<>>
Value(o) == o[1]

---------------------------------------------------------------------------
(* Python's str operations, on sequences of characters *)

\* str.startswith(prefix)
StartsWith(s, prefix) ==
    /\ Len(prefix) <= Len(s)
    /\ SubSeq(s, 1, Len(prefix)) = prefix

\* sub in s
Contains(s, sub) ==
    \E i \in 1..(Len(s) - Len(sub) + 1) : SubSeq(s, i, i + Len(sub) - 1) = sub

\* the characters str.strip() removes from both ends, those for which
\* str.isspace() holds: the ASCII blanks and separators U+0009..U+000D,
\* U+001C..U+001F and U+0020, and the Unicode spaces
Whitespace ==
    {"\t", "\n", "\\x0b", "\f", "\r", "\\x1c", "\\x1d", "\\x1e", "\\x1f",
     " ", "\\x85", "\\xa0", "\\u1680", "\\u2000", "\\u2001", "\\u2002",
     "\\u2003", "\\u2004", "\\u2005", "\\u2006", "\\u2007", "\\u2008",
     "\\u2009", "\\u200a", "\\u2028", "\\u2029", "\\u202f", "\\u205f",
     "\\u3000"}

\* str.strip(): the text between the first and the last non-whitespace
\* character
Strip(s) ==
    LET keep == {i \in 1..Len(s) : s[i] \notin Whitespace}
    IN  IF keep = {} THEN <<>>
        ELSE SubSeq(s, CHOOSE i \in keep : \A j \in keep : i <= j,
                       CHOOSE i \in keep : \A j \in keep : j <= i)

\* str.partition("\n")[0]: the text before the first newline
FirstLine(s) ==
    LET nl == {i \in 1..Len(s) : s[i] = "\n"}
    IN  IF nl = {} THEN s
        ELSE SubSeq(s, 1, (CHOOSE i \in nl : \A j \in nl : i <= j) - 1)

\* str.split("\n"): the lines of s; a text without newline is one line
RECURSIVE SplitLines(_)
SplitLines(s) ==
    LET nl == {i \in 1..Len(s) : s[i] = "\n"}
    IN  IF nl = {} THEN <<s>>
        ELSE LET k == CHOOSE i \in nl : \A j \in nl : i <= j
             IN  <<SubSeq(s, 1, k - 1)>> \o SplitLines(SubSeq(s, k + 1, Len(s)))

\* sep.join(parts)
RECURSIVE Join(_, _)
Join(sep, parts) ==
    IF parts = <<>> THEN <<>>
    ELSE IF Len(parts) = 1 THEN parts[1]
    ELSE parts[1] \o sep \o Join(sep, Tail(parts))

\* str(n) for an integer n >= 0
DigitChar(d) == <<"0", "1", "2", "3", "4", "5", "6", "7", "8", "9">>[d + 1]
RECURSIVE IntToStr(_)
IntToStr(n) ==
    IF n < 10 THEN <<DigitChar(n)>>
    ELSE IntToStr(n \div 10) \o <<DigitChar(n % 10)>>

---------------------------------------------------------------------------
(* re.match(pattern, string) for the patterns the plugins use.  A compiled *)
(* pattern is a sequence of nodes; a node is an anchor or a quantified     *)
(* character set [kind, chars, min, max], max = -1 for no upper limit:     *)
(*   "bol"  ^   matches at the start of the string (no re.MULTILINE)       *)
(*   "eol"  $   matches at the end, or before a final newline              *)
(*   "in"       a character of chars                                       *)
(*   "notin"    a character not in chars ("." is notin {"\n"})             *)
(* Groups do not change what matches and are left out of the nodes.        *)

Upper == {"A", "B", "C", "D", "E", "F", "G", "H", "I", "J", "K", "L", "M",
          "N", "O", "P", "Q", "R", "S", "T", "U", "V", "W", "X", "Y", "Z"}
AsciiDigit == {"0", "1", "2", "3", "4", "5", "6", "7", "8", "9"}
\* \d of a str pattern without re.ASCII: every Unicode decimal digit
\* (category Nd of Unicode 14.0.0, the database of Python 3.11)
Digit ==
    AsciiDigit \cup
    {"\\u0660", "\\u0661", "\\u0662", "\\u0663", "\\u0664", "\\u0665",
     "\\u0666", "\\u0667", "\\u0668", "\\u0669", "\\u06f0", "\\u06f1",
     "\\u06f2", "\\u06f3", "\\u06f4", "\\u06f5", "\\u06f6", "\\u06f7",
     "\\u06f8", "\\u06f9", "\\u07c0", "\\u07c1", "\\u07c2", "\\u07c3",
     "\\u07c4", "\\u07c5", "\\u07c6", "\\u07c7", "\\u07c8", "\\u07c9",
     "\\u0966", "\\u0967", "\\u0968", "\\u0969", "\\u096a", "\\u096b",
     "\\u096c", "\\u096d", "\\u096e", "\\u096f", "\\u09e6", "\\u09e7",
     "\\u09e8", "\\u09e9", "\\u09ea", "\\u09eb", "\\u09ec", "\\u09ed",
     "\\u09ee", "\\u09ef", "\\u0a66", "\\u0a67", "\\u0a68", "\\u0a69",
     "\\u0a6a", "\\u0a6b", "\\u0a6c", "\\u0a6d", "\\u0a6e", "\\u0a6f",
     "\\u0ae6", "\\u0ae7", "\\u0ae8", "\\u0ae9", "\\u0aea", "\\u0aeb",
     "\\u0aec", "\\u0aed", "\\u0aee", "\\u0aef", "\\u0b66", "\\u0b67",
     "\\u0b68", "\\u0b69", "\\u0b6a", "\\u0b6b", "\\u0b6c", "\\u0b6d",
     "\\u0b6e", "\\u0b6f", "\\u0be6", "\\u0be7", "\\u0be8", "\\u0be9",
     "\\u0bea", "\\u0beb", "\\u0bec", "\\u0bed", "\\u0bee", "\\u0bef",
     "\\u0c66", "\\u0c67", "\\u0c68", "\\u0c69", "\\u0c6a", "\\u0c6b",
     "\\u0c6c", "\\u0c6d", "\\u0c6e", "\\u0c6f", "\\u0ce6", "\\u0ce7",
     "\\u0ce8", "\\u0ce9", "\\u0cea", "\\u0ceb", "\\u0cec", "\\u0ced",
     "\\u0cee", "\\u0cef", "\\u0d66", "\\u0d67", "\\u0d68", "\\u0d69",
     "\\u0d6a", "\\u0d6b", "\\u0d6c", "\\u0d6d", "\\u0d6e", "\\u0d6f",
     "\\u0de6", "\\u0de7", "\\u0de8", "\\u0de9", "\\u0dea", "\\u0deb",
     "\\u0dec", "\\u0ded", "\\u0dee", "\\u0def", "\\u0e50", "\\u0e51",
     "\\u0e52", "\\u0e53", "\\u0e54", "\\u0e55", "\\u0e56", "\\u0e57",
     "\\u0e58", "\\u0e59", "\\u0ed0", "\\u0ed1", "\\u0ed2", "\\u0ed3",
     "\\u0ed4", "\\u0ed5", "\\u0ed6", "\\u0ed7", "\\u0ed8", "\\u0ed9",
     "\\u0f20", "\\u0f21", "\\u0f22", "\\u0f23", "\\u0f24", "\\u0f25",
     "\\u0f26", "\\u0f27", "\\u0f28", "\\u0f29", "\\u1040", "\\u1041",
     "\\u1042", "\\u1043", "\\u1044", "\\u1045", "\\u1046", "\\u1047",
     "\\u1048", "\\u1049", "\\u1090", "\\u1091", "\\u1092", "\\u1093",
     "\\u1094", "\\u1095", "\\u1096", "\\u1097", "\\u1098", "\\u1099",
     "\\u17e0", "\\u17e1", "\\u17e2", "\\u17e3", "\\u17e4", "\\u17e5",
     "\\u17e6", "\\u17e7", "\\u17e8", "\\u17e9", "\\u1810", "\\u1811",
     "\\u1812", "\\u1813", "\\u1814", "\\u1815", "\\u1816", "\\u1817",
     "\\u1818", "\\u1819", "\\u1946", "\\u1947", "\\u1948", "\\u1949",
     "\\u194a", "\\u194b", "\\u194c", "\\u194d", "\\u194e", "\\u194f",
     "\\u19d0", "\\u19d1", "\\u19d2", "\\u19d3", "\\u19d4", "\\u19d5",
     "\\u19d6", "\\u19d7", "\\u19d8", "\\u19d9", "\\u1a80", "\\u1a81",
     "\\u1a82", "\\u1a83", "\\u1a84", "\\u1a85", "\\u1a86", "\\u1a87",
     "\\u1a88", "\\u1a89", "\\u1a90", "\\u1a91", "\\u1a92", "\\u1a93",
     "\\u1a94", "\\u1a95", "\\u1a96", "\\u1a97", "\\u1a98", "\\u1a99",
     "\\u1b50", "\\u1b51", "\\u1b52", "\\u1b53", "\\u1b54", "\\u1b55",
     "\\u1b56", "\\u1b57", "\\u1b58", "\\u1b59", "\\u1bb0", "\\u1bb1",
     "\\u1bb2", "\\u1bb3", "\\u1bb4", "\\u1bb5", "\\u1bb6", "\\u1bb7",
     "\\u1bb8", "\\u1bb9", "\\u1c40", "\\u1c41", "\\u1c42", "\\u1c43",
     "\\u1c44", "\\u1c45", "\\u1c46", "\\u1c47", "\\u1c48", "\\u1c49",
     "\\u1c50", "\\u1c51", "\\u1c52", "\\u1c53", "\\u1c54", "\\u1c55",
     "\\u1c56", "\\u1c57", "\\u1c58", "\\u1c59", "\\ua620", "\\ua621",
     "\\ua622", "\\ua623", "\\ua624", "\\ua625", "\\ua626", "\\ua627",
     "\\ua628", "\\ua629", "\\ua8d0", "\\ua8d1", "\\ua8d2", "\\ua8d3",
     "\\ua8d4", "\\ua8d5", "\\ua8d6", "\\ua8d7", "\\ua8d8", "\\ua8d9",
     "\\ua900", "\\ua901", "\\ua902", "\\ua903", "\\ua904", "\\ua905",
     "\\ua906", "\\ua907", "\\ua908", "\\ua909", "\\ua9d0", "\\ua9d1",
     "\\ua9d2", "\\ua9d3", "\\ua9d4", "\\ua9d5", "\\ua9d6", "\\ua9d7",
     "\\ua9d8", "\\ua9d9", "\\ua9f0", "\\ua9f1", "\\ua9f2", "\\ua9f3",
     "\\ua9f4", "\\ua9f5", "\\ua9f6", "\\ua9f7", "\\ua9f8", "\\ua9f9",
     "\\uaa50", "\\uaa51", "\\uaa52", "\\uaa53", "\\uaa54", "\\uaa55",
     "\\uaa56", "\\uaa57", "\\uaa58", "\\uaa59", "\\uabf0", "\\uabf1",
     "\\uabf2", "\\uabf3", "\\uabf4", "\\uabf5", "\\uabf6", "\\uabf7",
     "\\uabf8", "\\uabf9", "\\uff10", "\\uff11", "\\uff12", "\\uff13",
     "\\uff14", "\\uff15", "\\uff16", "\\uff17", "\\uff18", "\\uff19",
     "\\U000104a0", "\\U000104a1", "\\U000104a2", "\\U000104a3",
     "\\U000104a4", "\\U000104a5", "\\U000104a6", "\\U000104a7",
     "\\U000104a8", "\\U000104a9", "\\U00010d30", "\\U00010d31",
     "\\U00010d32", "\\U00010d33", "\\U00010d34", "\\U00010d35",
     "\\U00010d36", "\\U00010d37", "\\U00010d38", "\\U00010d39",
     "\\U00011066", "\\U00011067", "\\U00011068", "\\U00011069",
     "\\U0001106a", "\\U0001106b", "\\U0001106c", "\\U0001106d",
     "\\U0001106e", "\\U0001106f", "\\U000110f0", "\\U000110f1",
     "\\U000110f2", "\\U000110f3", "\\U000110f4", "\\U000110f5",
     "\\U000110f6", "\\U000110f7", "\\U000110f8", "\\U000110f9",
     "\\U00011136", "\\U00011137", "\\U00011138", "\\U00011139",
     "\\U0001113a", "\\U0001113b", "\\U0001113c", "\\U0001113d",
     "\\U0001113e", "\\U0001113f", "\\U000111d0", "\\U000111d1",
     "\\U000111d2", "\\U000111d3", "\\U000111d4", "\\U000111d5",
     "\\U000111d6", "\\U000111d7", "\\U000111d8", "\\U000111d9",
     "\\U000112f0", "\\U000112f1", "\\U000112f2", "\\U000112f3",
     "\\U000112f4", "\\U000112f5", "\\U000112f6", "\\U000112f7",
     "\\U000112f8", "\\U000112f9", "\\U00011450", "\\U00011451",
     "\\U00011452", "\\U00011453", "\\U00011454", "\\U00011455",
     "\\U00011456", "\\U00011457", "\\U00011458", "\\U00011459",
     "\\U000114d0", "\\U000114d1", "\\U000114d2", "\\U000114d3",
     "\\U000114d4", "\\U000114d5", "\\U000114d6", "\\U000114d7",
     "\\U000114d8", "\\U000114d9", "\\U00011650", "\\U00011651",
     "\\U00011652", "\\U00011653", "\\U00011654", "\\U00011655",
     "\\U00011656", "\\U00011657", "\\U00011658", "\\U00011659",
     "\\U000116c0", "\\U000116c1", "\\U000116c2", "\\U000116c3",
     "\\U000116c4", "\\U000116c5", "\\U000116c6", "\\U000116c7",
     "\\U000116c8", "\\U000116c9", "\\U00011730", "\\U00011731",
     "\\U00011732", "\\U00011733", "\\U00011734", "\\U00011735",
     "\\U00011736", "\\U00011737", "\\U00011738", "\\U00011739",
     "\\U000118e0", "\\U000118e1", "\\U000118e2", "\\U000118e3",
     "\\U000118e4", "\\U000118e5", "\\U000118e6", "\\U000118e7",
     "\\U000118e8", "\\U000118e9", "\\U00011950", "\\U00011951",
     "\\U00011952", "\\U00011953", "\\U00011954", "\\U00011955",
     "\\U00011956", "\\U00011957", "\\U00011958", "\\U00011959",
     "\\U00011c50", "\\U00011c51", "\\U00011c52", "\\U00011c53",
     "\\U00011c54", "\\U00011c55", "\\U00011c56", "\\U00011c57",
     "\\U00011c58", "\\U00011c59", "\\U00011d50", "\\U00011d51",
     "\\U00011d52", "\\U00011d53", "\\U00011d54", "\\U00011d55",
     "\\U00011d56", "\\U00011d57", "\\U00011d58", "\\U00011d59",
     "\\U00011da0", "\\U00011da1", "\\U00011da2", "\\U00011da3",
     "\\U00011da4", "\\U00011da5", "\\U00011da6", "\\U00011da7",
     "\\U00011da8", "\\U00011da9", "\\U00016a60", "\\U00016a61",
     "\\U00016a62", "\\U00016a63", "\\U00016a64", "\\U00016a65",
     "\\U00016a66", "\\U00016a67", "\\U00016a68", "\\U00016a69",
     "\\U00016ac0", "\\U00016ac1", "\\U00016ac2", "\\U00016ac3",
     "\\U00016ac4", "\\U00016ac5", "\\U00016ac6", "\\U00016ac7",
     "\\U00016ac8", "\\U00016ac9", "\\U00016b50", "\\U00016b51",
     "\\U00016b52", "\\U00016b53", "\\U00016b54", "\\U00016b55",
     "\\U00016b56", "\\U00016b57", "\\U00016b58", "\\U00016b59",
     "\\U0001d7ce", "\\U0001d7cf", "\\U0001d7d0", "\\U0001d7d1",
     "\\U0001d7d2", "\\U0001d7d3", "\\U0001d7d4", "\\U0001d7d5",
     "\\U0001d7d6", "\\U0001d7d7", "\\U0001d7d8", "\\U0001d7d9",
     "\\U0001d7da", "\\U0001d7db", "\\U0001d7dc", "\\U0001d7dd",
     "\\U0001d7de", "\\U0001d7df", "\\U0001d7e0", "\\U0001d7e1",
     "\\U0001d7e2", "\\U0001d7e3", "\\U0001d7e4", "\\U0001d7e5",
     "\\U0001d7e6", "\\U0001d7e7", "\\U0001d7e8", "\\U0001d7e9",
     "\\U0001d7ea", "\\U0001d7eb", "\\U0001d7ec", "\\U0001d7ed",
     "\\U0001d7ee", "\\U0001d7ef", "\\U0001d7f0", "\\U0001d7f1",
     "\\U0001d7f2", "\\U0001d7f3", "\\U0001d7f4", "\\U0001d7f5",
     "\\U0001d7f6", "\\U0001d7f7", "\\U0001d7f8", "\\U0001d7f9",
     "\\U0001d7fa", "\\U0001d7fb", "\\U0001d7fc", "\\U0001d7fd",
     "\\U0001d7fe", "\\U0001d7ff", "\\U0001e140", "\\U0001e141",
     "\\U0001e142", "\\U0001e143", "\\U0001e144", "\\U0001e145",
     "\\U0001e146", "\\U0001e147", "\\U0001e148", "\\U0001e149",
     "\\U0001e2f0", "\\U0001e2f1", "\\U0001e2f2", "\\U0001e2f3",
     "\\U0001e2f4", "\\U0001e2f5", "\\U0001e2f6", "\\U0001e2f7",
     "\\U0001e2f8", "\\U0001e2f9", "\\U0001e950", "\\U0001e951",
     "\\U0001e952", "\\U0001e953", "\\U0001e954", "\\U0001e955",
     "\\U0001e956", "\\U0001e957", "\\U0001e958", "\\U0001e959",
     "\\U0001fbf0", "\\U0001fbf1", "\\U0001fbf2", "\\U0001fbf3",
     "\\U0001fbf4", "\\U0001fbf5", "\\U0001fbf6", "\\U0001fbf7",
     "\\U0001fbf8", "\\U0001fbf9"}

Bol == [kind |-> "bol", chars |-> {}, min |-> 0, max |-> 0]
Eol == [kind |-> "eol", chars |-> {}, min |-> 0, max |-> 0]
In(cs, lo, hi) == [kind |-> "in", chars |-> cs, min |-> lo, max |-> hi]
NotIn(cs, lo, hi) == [kind |-> "notin", chars |-> cs, min |-> lo, max |-> hi]

NodeTakes(node, c) ==
    \/ node.kind = "in" /\ c \in node.chars
    \/ node.kind = "notin" /\ c \notin node.chars

\* the positions where node can end when it starts at position i of s
NodeEnds(node, s, i) ==
    IF node.kind = "bol" THEN (IF i = 1 THEN {i} ELSE {})
    ELSE IF node.kind = "eol"
    THEN (IF i = Len(s) + 1 \/ (i = Len(s) /\ s[i] = "\n") THEN {i} ELSE {})
    ELSE {j \in i..(Len(s) + 1) :
            /\ j - i >= node.min
            /\ node.max = -1 \/ j - i <= node.max
            /\ \A k \in i..(j - 1) : NodeTakes(node, s[k])}

\* the positions where nodes[k..] can end when they start at a position of
\* starts
RECURSIVE ReEnds(_, _, _, _)
ReEnds(nodes, k, s, starts) ==
    IF k > Len(nodes) THEN starts
    ELSE ReEnds(nodes, k + 1, s,
                UNION {NodeEnds(nodes[k], s, i) : i \in starts})

\* bool(re.match(p, s)): p matches a prefix of s
ReMatch(p, s) == ReEnds(p.re, 1, s, {1}) # {}

---------------------------------------------------------------------------
(* The plugins: cz/base.py BaseCommitizen and tests/conftest.py ValidationCz *)

\* the names of the plugin classes of tests/conftest.py
ValidationCzName == <<"V","a","l","i","d","a","t","i","o","n","C","z">>
MockPluginName == <<"M","o","c","k","P","l","u","g","i","n">>

\* ValidationCz.schema_pattern: the pattern's text, and the pattern compiled
PatternText ==
    <<"^","(","?","P","<","i","s","s","u","e","_","n","b",">","[","A","-",
      "Z","]","{","3","}","-","\\","d","+",")",":"," ","(","?","P","<","c",
      "o","m","m","i","t",">",".","*",")","$">>
PatternNodes ==
    <<Bol, In(Upper, 3, 3), In({"-"}, 1, 1), In(Digit, 1, -1), In({":"}, 1, 1),
      In({" "}, 1, 1), NotIn({"\n"}, 0, -1), Eol>>
IssuePattern == [text |-> PatternText, re |-> PatternNodes]

EmptyReason ==
    <<"c","o","m","m","i","t"," ","m","e","s","s","a","g","e"," ","i","s",
      " ","e","m","p","t","y">>
TooLongReason ==
    <<"c","o","m","m","i","t"," ","m","e","s","s","a","g","e"," ","i","s",
      " ","t","o","o"," ","l","o","n","g","."," ","M","a","x"," ","l","e",
      "n","g","t","h"," ","i","s"," ">>
MismatchReason ==
    <<"c","o","m","m","i","t"," ","m","e","s","s","a","g","e"," ","d","o",
      "e","s"," ","n","o","t"," ","m","a","t","c","h"," ","p","a","t","t",
      "e","r","n"," ">>

\* msg_len > max_msg_length, with msg_len the length of the stripped first
\* line
TooLong(commit_msg, max_msg_length) ==
    Len(Strip(FirstLine(commit_msg))) > max_msg_length

\* any(map(commit_msg.startswith, allowed_prefixes))
AnyPrefix(commit_msg, allowed_prefixes) ==
    \E i \in 1..Len(allowed_prefixes) : StartsWith(commit_msg, allowed_prefixes[i])

\* Faulty variants of BaseValidate, to test that the properties of the
\* validator depend on the order of its tests: the tests in another order
BaseValidateNullAfterLength(commit_msg, pat, allow_abort, allowed_prefixes, max_msg_length) ==
    IF commit_msg = <<>> THEN <<allow_abort, <<>>>>
    ELSE IF AnyPrefix(commit_msg, allowed_prefixes) THEN <<TRUE, <<>>>>
    ELSE IF max_msg_length # 0 /\ TooLong(commit_msg, max_msg_length)
    THEN <<FALSE, <<>>>>
    ELSE IF IsNone(pat) THEN <<TRUE, <<>>>>
    ELSE <<ReMatch(Value(pat), commit_msg), <<>>>>

BaseValidateLengthBeforePrefix(commit_msg, pat, allow_abort, allowed_prefixes, max_msg_length) ==
    IF commit_msg = <<>> THEN <<allow_abort, <<>>>>
    ELSE IF IsNone(pat) THEN <<TRUE, <<>>>>
    ELSE IF max_msg_length # 0 /\ TooLong(commit_msg, max_msg_length)
    THEN <<FALSE, <<>>>>
    ELSE IF AnyPrefix(commit_msg, allowed_prefixes) THEN <<TRUE, <<>>>>
    ELSE <<ReMatch(Value(pat), commit_msg), <<>>>>

BaseValidatePatternBeforeLength(commit_msg, pat, allow_abort, allowed_prefixes, max_msg_length) ==
    IF commit_msg = <<>> THEN <<allow_abort, <<>>>>
    ELSE IF IsNone(pat) THEN <<TRUE, <<>>>>
    ELSE IF AnyPrefix(commit_msg, allowed_prefixes) THEN <<TRUE, <<>>>>
    ELSE IF ReMatch(Value(pat), commit_msg) THEN <<TRUE, <<>>>>
    ELSE <<FALSE, <<>>>>

BaseValidateNullBeforeEmpty(commit_msg, pat, allow_abort, allowed_prefixes, max_msg_length) ==
    IF IsNone(pat) THEN <<TRUE, <<>>>>
    ELSE IF commit_msg = <<>> THEN <<allow_abort, <<>>>>
    ELSE IF AnyPrefix(commit_msg, allowed_prefixes) THEN <<TRUE, <<>>>>
    ELSE IF max_msg_length # 0 /\ TooLong(commit_msg, max_msg_length)
    THEN <<FALSE, <<>>>>
    ELSE <<ReMatch(Value(pat), commit_msg), <<>>>>

\* BaseCommitizen.validate_commit_message: the pair (passed, reasons)
BaseValidate(commit_msg, pat, allow_abort, allowed_prefixes, max_msg_length) ==
    IF commit_msg = <<>> THEN <<allow_abort, <<>>>>
    ELSE IF IsNone(pat) THEN <<TRUE, <<>>>>
    ELSE IF AnyPrefix(commit_msg, allowed_prefixes) THEN <<TRUE, <<>>>>
    ELSE IF max_msg_length # 0 /\ TooLong(commit_msg, max_msg_length)
    THEN <<FALSE, <<>>>>
    ELSE <<ReMatch(Value(pat), commit_msg), <<>>>>

\* ValidationCz.validate_commit_message: the same precedence, with reasons
CustomValidate(commit_msg, pat, allow_abort, allowed_prefixes, max_msg_length) ==
    IF commit_msg = <<>>
    THEN <<allow_abort, IF allow_abort THEN <<>> ELSE <<EmptyReason>>>>
    ELSE IF IsNone(pat) THEN <<TRUE, <<>>>>
    ELSE IF AnyPrefix(commit_msg, allowed_prefixes) THEN <<TRUE, <<>>>>
    ELSE IF max_msg_length # 0 /\ TooLong(commit_msg, max_msg_length)
    THEN <<FALSE, <<TooLongReason \o IntToStr(max_msg_length)>>>>
    ELSE IF ~ReMatch(Value(pat), commit_msg)
    THEN <<FALSE, <<MismatchReason \o Value(pat).text>>>>
    ELSE <<TRUE, <<>>>>

\* validate_commit_message of the plugin class cls
Validate(cls, commit_msg, pat, allow_abort, allowed_prefixes, max_msg_length) ==
    IF cls = ValidationCzName
    THEN CustomValidate(commit_msg, pat, allow_abort, allowed_prefixes,
                        max_msg_length)
    ELSE BaseValidate(commit_msg, pat, allow_abort, allowed_prefixes,
                      max_msg_length)

---------------------------------------------------------------------------
(* Check._filter_comments (commands/check.py) *)

\* "-" * n
RECURSIVE Dashes(_)
Dashes(n) == IF n = 0 THEN <<>> ELSE <<"-">> \o Dashes(n - 1)

\* the number of "-" on each side of ">8" in the literal of line 136
ScissorsDashes == 24

\* "# ------------------------ >8 ------------------------"
Scissors ==
    <<"#", " ">> \o Dashes(ScissorsDashes) \o <<" ", ">", "8", " ">>
        \o Dashes(ScissorsDashes)

\* Faulty variant of IsScissors: the line is the literal
IsScissorsExact(line) == line = Scissors

\* the test that ends the loop: the literal is a substring of the line
IsScissors(line) == Contains(line, Scissors)

\* line.startswith("#")
IsComment(line) == StartsWith(line, <<"#">>)

\* Faulty variant of FilterLoop: the comment is removed from the list that
\* is being iterated, so the line after a comment is passed over and stays
RECURSIVE FilterLoopSkipsAfterRemoval(_, _, _)
FilterLoopSkipsAfterRemoval(lines, k, kept) ==
    IF k > Len(lines) THEN kept
    ELSE IF IsScissors(lines[k]) THEN kept
    ELSE IF ~IsComment(lines[k])
    THEN FilterLoopSkipsAfterRemoval(lines, k + 1, Append(kept, lines[k]))
    ELSE IF k + 1 > Len(lines) THEN kept
    ELSE FilterLoopSkipsAfterRemoval(lines, k + 2, Append(kept, lines[k + 1]))

\* the for loop over msg.split("\n"), from line k on, with the lines kept
\* so far
RECURSIVE FilterLoop(_, _, _)
FilterLoop(lines, k, kept) ==
    IF k > Len(lines) THEN kept
    ELSE IF IsScissors(lines[k]) THEN kept
    ELSE IF ~IsComment(lines[k])
    THEN FilterLoop(lines, k + 1, Append(kept, lines[k]))
    ELSE FilterLoop(lines, k + 1, kept)

_filter_comments(msg) == Join(<<"\n">>, FilterLoop(SplitLines(msg), 1, <<>>))

---------------------------------------------------------------------------
(* format_exception_message.  A failed commit is a pair <<commit, reasons>>, *)
(* a commit a record [rev, title, message].                                *)

ReportHeader ==
    <<"c","o","m","m","i","t"," ","v","a","l","i","d","a","t","i","o","n",
      ":"," ","f","a","i","l","e","d","!","\n","p","l","e","a","s","e"," ",
      "e","n","t","e","r"," ","a"," ","c","o","m","m","i","t"," ","m","e",
      "s","s","a","g","e"," ","i","n"," ","t","h","e"," ","c","o","m","m",
      "i","t","i","z","e","n"," ","f","o","r","m","a","t",".","\n">>
ReportPatternLabel ==
    <<"p","a","t","t","e","r","n",":"," ">>
CommitLabel ==
    <<"c","o","m","m","i","t"," ","\"">>
CommitSep ==
    <<"\"",":"," ","\"">>
ErrorsLabel ==
    <<"e","r","r","o","r","s",":","\n">>
BoundMethodLabel ==
    <<"<","b","o","u","n","d"," ","m","e","t","h","o","d"," ">>
SchemaPatternOf ==
    <<".","s","c","h","e","m","a","_","p","a","t","t","e","r","n"," ","o",
      "f"," ","<","t","e","s","t","s",".","c","o","n","f","t","e","s","t",
      ".">>
ObjectAt ==
    <<" ","o","b","j","e","c","t"," ","a","t"," ","0","x">>
BaseClassName ==
    <<"B","a","s","e","C","o","m","m","i","t","i","z","e","n">>

\* str(self.schema_pattern): the method object is formatted, it is not
\* called.  The method is BaseCommitizen's unless the class overrides it; id
\* is the object's address, which differs from run to run.
BoundMethodRepr(plugin) ==
    BoundMethodLabel
        \o (IF plugin.overrides THEN plugin.cls ELSE BaseClassName)
        \o SchemaPatternOf \o plugin.cls \o ObjectAt \o plugin.id \o <<">", ">">>

\* f'commit "{commit.rev}": "{commit.message}"'
CommitLine(commit) ==
    CommitLabel \o commit.rev \o CommitSep \o commit.message \o <<"\"">>

\* the report around the displayed commits
Report(displayed_msgs_content, plugin) ==
    ReportHeader \o displayed_msgs_content \o <<"\n">> \o ReportPatternLabel
        \o BoundMethodRepr(plugin)

\* BaseCommitizen.format_exception_message
BaseFormat(ill, plugin) ==
    Report(Join(<<"\n">>, [i \in 1..Len(ill) |-> CommitLine(ill[i][1])]), plugin)

\* The entry of one commit in ValidationCz.format_exception_message.  The
\* three adjacent literals are one string, and .join is called on that
\* string: the commit line and "errors:\n" and "\n" together are the
\* separator put between the "- {error}" items.
CustomEntry(commit, errors) ==
    Join(CommitLine(commit) \o <<"\n">> \o ErrorsLabel \o <<"\n">>,
         [j \in 1..Len(errors) |-> <<"-", " ">> \o errors[j]])

\* ValidationCz.format_exception_message
CustomFormat(ill, plugin) ==
    Report(Join(<<"\n">>,
                [i \in 1..Len(ill) |-> CustomEntry(ill[i][1], ill[i][2])]),
           plugin)

\* format_exception_message of the plugin
Format(ill, plugin) ==
    IF plugin.cls = ValidationCzName THEN CustomFormat(ill, plugin)
    ELSE BaseFormat(ill, plugin)

---------------------------------------------------------------------------
(* The Check command (commands/check.py) *)

NoCommitsPrefix ==
    <<"N","o"," ","c","o","m","m","i","t"," ","f","o","u","n","d"," ","w",
      "i","t","h"," ","r","a","n","g","e",":"," ","'">>
SuccessText ==
    <<"C","o","m","m","i","t"," ","v","a","l","i","d","a","t","i","o","n",
      ":"," ","s","u","c","c","e","s","s","f","u","l","!">>
ArgumentErrorText ==
    <<"O","n","l","y"," ","o","n","e"," ","o","f"," ","-","-","r","e","v",
      "-","r","a","n","g","e",","," ","-","-","m","e","s","s","a","g","e",
      ","," ","a","n","d"," ","-","-","c","o","m","m","i","t","-","m","s",
      "g","-","f","i","l","e"," ","i","s"," ","p","e","r","m","i","t","t",
      "e","d"," ","b","y"," ","c","h","e","c","k"," ","c","o","m","m","a",
      "n","d","!"," ","S","e","e"," ","'","c","z"," ","c","h","e","c","k",
      " ","-","h","'"," ","f","o","r"," ","m","o","r","e"," ","i","n","f",
      "o","r","m","a","t","i","o","n">>

\* git.GitCommit(rev, title, body): the commit record; for a message given
\* inline or in a file the body is the record's message
GitCommit(rev, title, body) == [rev |-> rev, title |-> title, message |-> body]

\* dict.get(key, default) for a key that is absent (None) or present
Get(arg, default) == IF IsNone(arg) THEN default ELSE Value(arg)

\* Faulty variant of ResolvePrefixes: allowed_prefixes or configured
ResolvePrefixesOr(allowed_prefixes, configured) ==
    IF ~IsNone(allowed_prefixes) /\ Value(allowed_prefixes) # <<>>
    THEN Value(allowed_prefixes) ELSE configured

\* lines 37-42: the given list when one is given, even an empty one
ResolvePrefixes(allowed_prefixes, configured) ==
    IF ~IsNone(allowed_prefixes) THEN Value(allowed_prefixes) ELSE configured

\* Faulty variant of NumExclusiveArgs: the arguments that are truthy are counted
NumTruthyArgs(commit_msg_file, commit_msg, rev_range) ==
    (IF commit_msg_file \notin {None, Some(<<>>)} THEN 1 ELSE 0)
        + (IF commit_msg \notin {None, Some(<<>>)} THEN 1 ELSE 0)
        + (IF rev_range \notin {None, Some(<<>>)} THEN 1 ELSE 0)

\* lines 51-54: how many of the three exclusive arguments are not None
NumExclusiveArgs(commit_msg_file, commit_msg, rev_range) ==
    (IF ~IsNone(commit_msg_file) THEN 1 ELSE 0)
        + (IF ~IsNone(commit_msg) THEN 1 ELSE 0)
        + (IF ~IsNone(rev_range) THEN 1 ELSE 0)

\* lines 55-61: what _valid_command_argument does with that number:
\* "stdin" (read the message from standard input), "raise" or "ok"
ArgumentCheck(num_exclusive_args_provided, tty) ==
    IF num_exclusive_args_provided = 0 /\ ~tty THEN "stdin"
    ELSE IF num_exclusive_args_provided # 1 THEN "raise"
    ELSE "ok"

\* Faulty variant of Collect: only the first failure is kept
CollectFirstOnly(ill, commit, check) ==
    IF ~check[1] /\ ill = <<>> THEN Append(ill, <<commit, check[2]>>) ELSE ill

\* lines 74-86: the comprehension keeps (commit, check[1]) when check[0] is
\* false
Collect(ill, commit, check) ==
    IF ~check[1] THEN Append(ill, <<commit, check[2]>>) ELSE ill

\* Faulty variant of NoCommits: commits is None, which a list never is
NoCommitsIsNone(cs) == FALSE

\* line 70: not commits
NoCommits(cs) == cs = <<>>

\* line 71: the message of NoCommitsFoundError; the range is formatted with
\* str(), which gives "None" for None
NoneText ==
    <<"N","o","n","e">>
NoCommitsMessage(rev_range) ==
    NoCommitsPrefix \o (IF IsNone(rev_range) THEN NoneText ELSE Value(rev_range))
        \o <<"'">>

NoException == [class |-> "", message |-> <<>>]
Exception(class, message) == [class |-> class, message |-> message]

---------------------------------------------------------------------------
(* Bounds and the inputs drawn within them *)

MaxFrags == 3      \* fragments in a message given to validate_commit_message
MaxLimit == 6      \* largest max_msg_length given to it
MaxLines == 3      \* lines in a text given to _filter_comments
MaxFailed == 2     \* failed commits given to format_exception_message
MaxCommits == 3    \* commits git.get_commits returns for a range

T_issue == <<"A", "B", "C", "-", "1", ":", " ">>
T_issue_nd == <<"A", "B", "C", "-", "\\u0661", ":", " ">>
T_merge == <<"M", "e", "r", "g", "e">>
T_utf8 == <<"u", "t", "f", "-", "8">>
T_bogus == <<"b", "o", "g", "u", "s">>
T_bad == <<"b", "a", "d">>
T_rev1 == <<"a", "1", "f">>
T_rev2 == <<"b", "2", "e">>
T_rev3 == <<"c", "3", "d">>
T_range == <<"v", "1", ".", ".", "v", "2">>
T_path == <<"M", "S", "G">>

\* all concatenations of at most n of the fragments
RECURSIVE Concats(_, _)
Concats(fragments, n) ==
    IF n = 0 THEN {<<>>}
    ELSE LET shorter == Concats(fragments, n - 1)
         IN  shorter \cup {s \o f : s \in shorter, f \in fragments}

\* all sequences of at most n elements of S
RECURSIVE SeqsUpTo(_, _)
SeqsUpTo(S, n) ==
    IF n = 0 THEN {<<>>}
    ELSE LET shorter == SeqsUpTo(S, n - 1)
         IN  shorter \cup {Append(s, x) : s \in shorter, x \in S}

Patterns == {None, Some(IssuePattern)}

\* messages: an issue number that the pattern wants, one written with a
\* digit that is not ASCII, an exempted word, blanks (a space and U+000B),
\* newlines, other text
MessageFragments ==
    {T_issue, T_issue_nd, T_merge, <<" ">>, <<"\\x0b">>, <<"\n">>, <<"x">>}
Messages == Concats(MessageFragments, MaxFrags)
PrefixLists == {<<>>, <<T_merge>>, <<<<>>>>, <<<<"x">>, T_merge>>}
ValidateInputs ==
    [cls : {MockPluginName, ValidationCzName}, commit_msg : Messages,
     pattern : Patterns, allow_abort : BOOLEAN,
     allowed_prefixes : PrefixLists, max_msg_length : 0..MaxLimit]

\* lines: empty, text, a comment, the scissors line, lines that hold the
\* scissors with text around them, and a scissors line one dash short
FilterLines ==
    {<<>>, <<"x">>, <<"#", "c">>, Scissors, <<"x", " ">> \o Scissors,
     Scissors \o <<" ", "x">>,
     <<"#", " ">> \o Dashes(ScissorsDashes - 1) \o <<" ", ">", "8", " ">>
         \o Dashes(ScissorsDashes)}
FilterTexts ==
    {Join(<<"\n">>, ls) : ls \in SeqsUpTo(FilterLines, MaxLines) \ {<<>>}}

\* plugin objects of the two classes of tests/conftest.py: the class,
\* whether the class overrides schema_pattern, what schema_pattern() does
\* (<<>>: raises NotImplementedError as BaseCommitizen's does, <<p>>:
\* returns p), and the object's address
ObjectIds == {<<"7", "f", "0", "a">>, <<"7", "f", "e", "8">>}
PluginClasses ==
    {[cls |-> MockPluginName, overrides |-> FALSE, schema |-> <<>>],
     [cls |-> ValidationCzName, overrides |-> TRUE,
      schema |-> <<Some(IssuePattern)>>]}
NewPlugin(class, id) ==
    [cls |-> class.cls, overrides |-> class.overrides, schema |-> class.schema,
     id |-> id]
Plugins == {NewPlugin(c, id) : c \in PluginClasses, id \in ObjectIds}

\* commits of a repository: one that conforms, two that do not and have the
\* same message, one that starts with an exempted word
LogCommits ==
    {[rev |-> T_rev1, title |-> T_issue \o <<"x">>, message |-> T_issue \o <<"x">>],
     [rev |-> T_rev2, title |-> T_bad, message |-> T_bad],
     [rev |-> T_rev3, title |-> T_bad, message |-> T_bad]}
ReasonLists ==
    {<<>>, <<MismatchReason \o PatternText>>,
     <<TooLongReason \o <<"2">>, MismatchReason \o PatternText>>}
FailedLists == SeqsUpTo(LogCommits \X ReasonLists, MaxFailed)
FormatInputs == [plugin : Plugins, ill : FailedLists]

---------------------------------------------------------------------------
(* One run of the Check command *)

\* messages given with --message, on standard input or in the message file
InlineMessages ==
    {<<>>, T_issue \o <<"x">>, T_bad, T_merge \o <<" ", "x">>,
     <<"#", "c", "\n">> \o T_issue \o <<"x", "\n">> \o Scissors \o <<"\n">> \o T_bad}
\* standard input: a terminal, or a stream with a text to read; pos is
\* the number of characters of the text already read
StdinTexts == {<<>>, T_bad \o <<"\n">>}
StdinStates ==
    {[isatty |-> TRUE, text |-> <<>>, pos |-> 0]}
        \cup {[isatty |-> FALSE, text |-> t, pos |-> 0] : t \in StdinTexts}
FileTexts == {T_issue \o <<"x", "\n", "#", "c", "\n">>, <<"#", "c">>}
ArgumentSets ==
    [commit_msg_file : {None, Some(T_path)},
     message : {None} \cup {Some(m) : m \in InlineMessages},
     rev_range : {None, Some(T_range)},
     allow_abort : {None, Some(TRUE), Some(FALSE)},
     message_length_limit : {None, Some(MaxLimit)},
     allowed_prefixes : {None, Some(<<>>), Some(<<T_bad>>)}]
SettingsSets ==
    [allow_abort : BOOLEAN, allowed_prefixes : {<<T_merge>>},
     encoding : {T_utf8, T_bogus}, name : PluginClasses]

NoSelf ==
    [commit_msg_file |-> None, commit_msg |-> None, rev_range |-> None,
     allow_abort |-> FALSE, max_msg_length |-> 0, allowed_prefixes |-> <<>>]

CheckIdle ==
    /\ pc = "idle" /\ arguments = <<>> /\ settings = <<>> /\ stdin = <<>>
    /\ self = <<>> /\ cz = <<>> /\ commits = <<>> /\ pattern = <<>>
    /\ checked = <<>> /\ ill_formated_commits = <<>>
    /\ raised = NoException /\ output = <<>>
ValidateIdle == vPc = "idle" /\ vIn = <<>> /\ vOut = <<>>
FilterIdle == fPc = "idle" /\ fIn = <<>> /\ fOut = <<>> /\ fAgain = <<>>
FormatIdle == rPc = "idle" /\ rIn = <<>> /\ rOut = <<>>

Init ==
    /\ pc = "new"
    /\ arguments \in ArgumentSets
    /\ settings \in SettingsSets
    /\ stdin \in StdinStates
    /\ self = NoSelf
    /\ cz = None
    /\ commits = <<>>
    /\ pattern = <<>>
    /\ checked = <<>>
    /\ ill_formated_commits = <<>>
    /\ raised = NoException
    /\ output = <<>>
    /\ ValidateIdle /\ FilterIdle /\ FormatIdle

\* The fields lines 27-42 set, with the message _valid_command_argument
\* may read from standard input
SelfFields(commit_msg) ==
    [commit_msg_file |-> arguments.commit_msg_file,
     commit_msg |-> commit_msg,
     rev_range |-> arguments.rev_range,
     allow_abort |-> Get(arguments.allow_abort, settings.allow_abort),
     max_msg_length |-> Get(arguments.message_length_limit, 0),
     allowed_prefixes |->
         ResolvePrefixes(arguments.allowed_prefixes, settings.allowed_prefixes)]

NumGiven ==
    NumExclusiveArgs(arguments.commit_msg_file, arguments.message,
                     arguments.rev_range)

\* Check.__init__ with exactly one exclusive argument
Construct ==
    /\ pc = "new"
    /\ ArgumentCheck(NumGiven, stdin.isatty) = "ok"
    /\ self' = SelfFields(arguments.message)
    /\ \E id \in ObjectIds : cz' = Some(NewPlugin(settings.name, id))
    /\ pc' = "constructed"
    /\ UNCHANGED <<arguments, settings, stdin, commits, pattern, checked,
                   ill_formated_commits, raised, output>>
    /\ UNCHANGED <<validateVars, filterVars, formatVars>>

\* sys.stdin.read(): the text of the stream from its position to its end
StdinRest(s) == SubSeq(s.text, s.pos + 1, Len(s.text))

\* Check.__init__ with no exclusive argument and standard input not a
\* terminal: sys.stdin.read() is the message, and the stream is at its end
ConstructFromStdin ==
    /\ pc = "new"
    /\ ArgumentCheck(NumGiven, stdin.isatty) = "stdin"
    /\ self' = SelfFields(Some(StdinRest(stdin)))
    /\ stdin' = [stdin EXCEPT !.pos = Len(stdin.text)]
    /\ \E id \in ObjectIds : cz' = Some(NewPlugin(settings.name, id))
    /\ pc' = "constructed"
    /\ UNCHANGED <<arguments, settings, commits, pattern, checked,
                   ill_formated_commits, raised, output>>
    /\ UNCHANGED <<validateVars, filterVars, formatVars>>

\* Check.__init__ raising InvalidCommandArgumentError: the fields of lines
\* 27-42 are set, the plugin is not created
ConstructRaises ==
    /\ pc = "new"
    /\ ArgumentCheck(NumGiven, stdin.isatty) = "raise"
    /\ self' = SelfFields(arguments.message)
    /\ raised' = Exception("InvalidCommandArgumentError", ArgumentErrorText)
    /\ pc' = "raised"
    /\ UNCHANGED <<arguments, settings, stdin, cz, commits, pattern, checked,
                   ill_formated_commits, output>>
    /\ UNCHANGED <<validateVars, filterVars, formatVars>>

\* the encodings open() knows, of those the settings draw from
KnownEncodings == {T_utf8}

\* what open(...).read() of the message file can give
ReadFile(path) == FileTexts

\* repr() of a path without quotes or escapes, as OSError's text quotes it
PathRepr(path) == <<"'">> \o path \o <<"'">>

NoSuchFileText ==
    <<"[","E","r","r","n","o"," ","2","]"," ","N","o"," ","s","u","c","h",
      " ","f","i","l","e"," ","o","r"," ","d","i","r","e","c","t","o","r",
      "y",":"," ">>
IsADirectoryText ==
    <<"[","E","r","r","n","o"," ","2","1","]"," ","I","s"," ","a"," ","d",
      "i","r","e","c","t","o","r","y",":"," ">>
PermissionDeniedText ==
    <<"[","E","r","r","n","o"," ","1","3","]"," ","P","e","r","m","i","s",
      "s","i","o","n"," ","d","e","n","i","e","d",":"," ">>
DecodeErrorText ==
    <<"'","u","t","f","-","8","'"," ","c","o","d","e","c"," ","c","a","n",
      "'","t"," ","d","e","c","o","d","e"," ","b","y","t","e"," ","0","x",
      "f","f"," ","i","n"," ","p","o","s","i","t","i","o","n"," ","0",":",
      " ","i","n","v","a","l","i","d"," ","s","t","a","r","t"," ","b","y",
      "t","e">>
UnknownEncodingText ==
    <<"u","n","k","n","o","w","n"," ","e","n","c","o","d","i","n","g",":",
      " ">>

\* what open(path, encoding=encoding) and read() can raise: the subclass of
\* OSError the system reports, with its errno text and the path; for a
\* file that opens, LookupError when the encoding is unknown, or
\* UnicodeDecodeError when the bytes are not text of the encoding (here a
\* file that starts with the byte 0xff)
ReadFileErrors(path, encoding) ==
    {Exception("FileNotFoundError", NoSuchFileText \o PathRepr(path)),
     Exception("IsADirectoryError", IsADirectoryText \o PathRepr(path)),
     Exception("PermissionError", PermissionDeniedText \o PathRepr(path))}
        \cup (IF encoding \in KnownEncodings
              THEN {Exception("UnicodeDecodeError", DecodeErrorText)}
              ELSE {Exception("LookupError",
                              UnknownEncodingText \o encoding)})

\* what git.get_commits(end=rev_range) can give: the commits of the range
GetCommits(rev_range) == SeqsUpTo(LogCommits, MaxCommits)

\* Check._get_commits for --commit-msg-file, --message or standard input:
\* one commit without revision whose message is the filtered text
GetInlineCommit ==
    /\ pc = "constructed"
    /\ \/ ~IsNone(self.commit_msg_file)
       \/ ~IsNone(self.commit_msg)
    /\ ~IsNone(self.commit_msg_file) => settings.encoding \in KnownEncodings
    /\ \E msg \in (IF ~IsNone(self.commit_msg_file)
                   THEN ReadFile(Value(self.commit_msg_file))
                   ELSE {Value(self.commit_msg)}) :
          commits' = <<GitCommit(<<>>, <<>>, _filter_comments(msg))>>
    /\ pc' = "commits"
    /\ UNCHANGED <<arguments, settings, stdin, self, cz, pattern, checked,
                   ill_formated_commits, raised, output>>
    /\ UNCHANGED <<validateVars, filterVars, formatVars>>

\* lines 99-100: the message file cannot be opened or read; the error
\* leaves __call__ as it is
ReadFileRaises ==
    /\ pc = "constructed"
    /\ ~IsNone(self.commit_msg_file)
    /\ raised' \in ReadFileErrors(Value(self.commit_msg_file),
                                  settings.encoding)
    /\ pc' = "raised"
    /\ UNCHANGED <<arguments, settings, stdin, self, cz, commits, pattern,
                   checked, ill_formated_commits, output>>
    /\ UNCHANGED <<validateVars, filterVars, formatVars>>

\* Check._get_commits for --rev-range, the range not being empty
GetRangeCommits ==
    /\ pc = "constructed"
    /\ IsNone(self.commit_msg_file) /\ IsNone(self.commit_msg)
    /\ \E log \in GetCommits(self.rev_range) :
          /\ ~NoCommits(log)
          /\ commits' = log
    /\ pc' = "commits"
    /\ UNCHANGED <<arguments, settings, stdin, self, cz, pattern, checked,
                   ill_formated_commits, raised, output>>
    /\ UNCHANGED <<validateVars, filterVars, formatVars>>

\* lines 69-71: the range has no commit, NoCommitsFoundError
GetNoCommits ==
    /\ pc = "constructed"
    /\ IsNone(self.commit_msg_file) /\ IsNone(self.commit_msg)
    /\ \E log \in GetCommits(self.rev_range) :
          /\ NoCommits(log)
          /\ commits' = log
    /\ raised' = Exception("NoCommitsFoundError", NoCommitsMessage(self.rev_range))
    /\ pc' = "raised"
    /\ UNCHANGED <<arguments, settings, stdin, self, cz, pattern, checked,
                   ill_formated_commits, output>>
    /\ UNCHANGED <<validateVars, filterVars, formatVars>>

\* line 73: the plugin gives its pattern
SchemaPattern ==
    /\ pc = "commits"
    /\ Value(cz).schema # <<>>
    /\ pattern' = Value(cz).schema
    /\ pc' = "checking"
    /\ UNCHANGED <<arguments, settings, stdin, self, cz, commits, checked,
                   ill_formated_commits, raised, output>>
    /\ UNCHANGED <<validateVars, filterVars, formatVars>>

NotImplementedText ==
    <<"N","o","t"," ","I","m","p","l","e","m","e","n","t","e","d"," ","y",
      "e","t">>

\* line 73 with a plugin that keeps BaseCommitizen.schema_pattern, which
\* raises NotImplementedError("Not Implemented yet")
SchemaPatternRaises ==
    /\ pc = "commits"
    /\ Value(cz).schema = <<>>
    /\ raised' = Exception("NotImplementedError", NotImplementedText)
    /\ pc' = "raised"
    /\ UNCHANGED <<arguments, settings, stdin, self, cz, commits, pattern,
                   checked, ill_formated_commits, output>>
    /\ UNCHANGED <<validateVars, filterVars, formatVars>>

\* lines 74-86: one commit of the comprehension, in the order of commits
CheckCommit ==
    /\ pc = "checking"
    /\ Len(checked) < Len(commits)
    /\ LET commit == commits[Len(checked) + 1]
           check == Validate(Value(cz).cls, commit.message, Value(pattern),
                             self.allow_abort, self.allowed_prefixes,
                             self.max_msg_length)
       IN  /\ checked' = Append(checked, <<commit, check>>)
           /\ ill_formated_commits' = Collect(ill_formated_commits, commit, check)
    /\ UNCHANGED <<pc, arguments, settings, stdin, self, cz, commits, pattern,
                   raised, output>>
    /\ UNCHANGED <<validateVars, filterVars, formatVars>>

\* lines 88-91: some commit failed, InvalidCommitMessageError with the report
RaiseInvalid ==
    /\ pc = "checking"
    /\ Len(checked) = Len(commits)
    /\ ill_formated_commits # <<>>
    /\ raised' = Exception("InvalidCommitMessageError",
                           Format(ill_formated_commits, Value(cz)))
    /\ pc' = "raised"
    /\ UNCHANGED <<arguments, settings, stdin, self, cz, commits, pattern,
                   checked, ill_formated_commits, output>>
    /\ UNCHANGED <<validateVars, filterVars, formatVars>>

\* line 92: no commit failed, out.success
Success ==
    /\ pc = "checking"
    /\ Len(checked) = Len(commits)
    /\ ill_formated_commits = <<>>
    /\ output' = Append(output, SuccessText)
    /\ pc' = "done"
    /\ UNCHANGED <<arguments, settings, stdin, self, cz, commits, pattern,
                   checked, ill_formated_commits, raised>>
    /\ UNCHANGED <<validateVars, filterVars, formatVars>>

Next ==
    \/ Construct \/ ConstructFromStdin \/ ConstructRaises
    \/ GetInlineCommit \/ ReadFileRaises \/ GetRangeCommits \/ GetNoCommits
    \/ SchemaPattern \/ SchemaPatternRaises
    \/ CheckCommit \/ RaiseInvalid \/ Success

Spec == Init /\ [][Next]_vars

---------------------------------------------------------------------------
(* validate_commit_message applied to one input *)

InitValidate ==
    /\ vPc = "input" /\ vIn \in ValidateInputs /\ vOut = <<>>
    /\ CheckIdle /\ FilterIdle /\ FormatIdle

CallValidate ==
    /\ vPc = "input"
    /\ vOut' = Validate(vIn.cls, vIn.commit_msg, vIn.pattern, vIn.allow_abort,
                        vIn.allowed_prefixes, vIn.max_msg_length)
    /\ vPc' = "returned"
    /\ UNCHANGED <<vIn, checkVars, filterVars, formatVars>>

SpecValidate == InitValidate /\ [][CallValidate]_vars

(* Check._filter_comments applied to one text *)

InitFilter ==
    /\ fPc = "input" /\ fIn \in FilterTexts /\ fOut = <<>> /\ fAgain = <<>>
    /\ CheckIdle /\ ValidateIdle /\ FormatIdle

CallFilter ==
    /\ fPc = "input"
    /\ fOut' = _filter_comments(fIn)
    /\ fPc' = "returned"
    /\ UNCHANGED <<fIn, fAgain, checkVars, validateVars, formatVars>>

\* the text already filtered is filtered once more
CallFilterAgain ==
    /\ fPc = "returned"
    /\ fAgain' = _filter_comments(fOut)
    /\ fPc' = "refiltered"
    /\ UNCHANGED <<fIn, fOut, checkVars, validateVars, formatVars>>

NextFilter == CallFilter \/ CallFilterAgain

SpecFilter == InitFilter /\ [][NextFilter]_vars

(* format_exception_message applied to one list of failed commits *)

InitFormat ==
    /\ rPc = "input" /\ rIn \in FormatInputs /\ rOut = <<>>
    /\ CheckIdle /\ ValidateIdle /\ FilterIdle

CallFormat ==
    /\ rPc = "input"
    /\ rOut' = Format(rIn.ill, rIn.plugin)
    /\ rPc' = "returned"
    /\ UNCHANGED <<rIn, checkVars, validateVars, filterVars>>

SpecFormat == InitFormat /\ [][CallFormat]_vars

---------------------------------------------------------------------------
(* Properties of validate_commit_message, under SpecValidate *)

Returned == vPc = "returned"
OfBase == vIn.cls # ValidationCzName
Passed == vOut[1]

\* the message starts with an entry of the list
Exempted(m, prefixes) ==
    \E i \in 1..Len(prefixes) :
        /\ Len(prefixes[i]) <= Len(m)
        /\ \A k \in 1..Len(prefixes[i]) : m[k] = prefixes[i][k]

\* the stripped first line of the message is longer than limit
FirstLineExceeds(m, limit) == Len(Strip(FirstLine(m))) > limit

\* C1 as stated: for every message, the empty one included, and every value
\* of allow_abort, allowed_prefixes and max_msg_length,
\* BaseCommitizen.validate_commit_message with pattern = null returns
\* (true, []).
C1_NullPatternAlwaysPasses ==
    (Returned /\ OfBase /\ IsNone(vIn.pattern)) => vOut = <<TRUE, <<>>>>

\* C1 amended: with pattern = null, BaseCommitizen.validate_commit_message
\* returns (true, []) for every non-empty message, whatever allow_abort,
\* allowed_prefixes and max_msg_length are, and (allow_abort, []) for the
\* empty message.
C1_NullPatternPassesNonEmpty ==
    (Returned /\ OfBase /\ IsNone(vIn.pattern)) =>
        /\ vIn.commit_msg # <<>> => vOut = <<TRUE, <<>>>>
        /\ vIn.commit_msg = <<>> => vOut = <<vIn.allow_abort, <<>>>>

\* C1's case: no pattern, and a message that would fail the length limit
C1_Witness ==
    /\ Returned /\ OfBase /\ IsNone(vIn.pattern)
    /\ vIn.commit_msg # <<>>
    /\ ~Exempted(vIn.commit_msg, vIn.allowed_prefixes)
    /\ vIn.max_msg_length > 0
    /\ FirstLineExceeds(vIn.commit_msg, vIn.max_msg_length)
    /\ vOut = <<TRUE, <<>>>>

\* C2: a non-empty message that starts with an entry of allowed_prefixes
\* gets (true, []), also when its stripped first line is longer than a
\* positive max_msg_length and when the pattern does not match it.
C2_PrefixExemptionWins ==
    (Returned /\ vIn.commit_msg # <<>>
        /\ Exempted(vIn.commit_msg, vIn.allowed_prefixes))
    => vOut = <<TRUE, <<>>>>

\* C2's case: exempted, too long, and not matched by the pattern
C2_Witness ==
    /\ Returned /\ vIn.commit_msg # <<>>
    /\ Exempted(vIn.commit_msg, vIn.allowed_prefixes)
    /\ \A i \in 1..Len(vIn.allowed_prefixes) : vIn.allowed_prefixes[i] # <<>>
    /\ vIn.max_msg_length > 0
    /\ FirstLineExceeds(vIn.commit_msg, vIn.max_msg_length)
    /\ ~IsNone(vIn.pattern) /\ ~ReMatch(Value(vIn.pattern), vIn.commit_msg)
    /\ vOut = <<TRUE, <<>>>>

\* a rejection that is not for the length: the message is empty and that is
\* not allowed, or the pattern does not match it
RejectedForContent ==
    \/ vIn.commit_msg = <<>> /\ ~vIn.allow_abort
    \/ /\ ~IsNone(vIn.pattern)
       /\ ~ReMatch(Value(vIn.pattern), vIn.commit_msg)

\* C3 as stated: whenever max_msg_length > 0, the stripped first line is
\* longer than it and the message starts with no allowed prefix, the result
\* is passed = false, whether the pattern would match or not; and with
\* max_msg_length = 0 no message is rejected for its length.
C3_LengthAlwaysRejects ==
    /\ (Returned /\ vIn.max_msg_length > 0
           /\ FirstLineExceeds(vIn.commit_msg, vIn.max_msg_length)
           /\ ~Exempted(vIn.commit_msg, vIn.allowed_prefixes))
       => ~Passed
    /\ (Returned /\ vIn.max_msg_length = 0 /\ ~Passed) => RejectedForContent

\* C3 amended: the same, for a pattern that is not null (with a null
\* pattern the message passes whatever its length).
C3_LengthRejectsUnderPattern ==
    /\ (Returned /\ ~IsNone(vIn.pattern) /\ vIn.max_msg_length > 0
           /\ FirstLineExceeds(vIn.commit_msg, vIn.max_msg_length)
           /\ ~Exempted(vIn.commit_msg, vIn.allowed_prefixes))
       => ~Passed
    /\ (Returned /\ vIn.max_msg_length = 0 /\ ~Passed) => RejectedForContent

\* C3's case: the pattern matches, blanks around the first line do not
\* count, and the message is rejected for its length
C3_Witness ==
    /\ Returned /\ ~IsNone(vIn.pattern)
    /\ ReMatch(Value(vIn.pattern), vIn.commit_msg)
    /\ vIn.max_msg_length > 0
    /\ FirstLineExceeds(vIn.commit_msg, vIn.max_msg_length)
    /\ Len(FirstLine(vIn.commit_msg)) > Len(Strip(FirstLine(vIn.commit_msg)))
    /\ ~Exempted(vIn.commit_msg, vIn.allowed_prefixes)
    /\ ~Passed

\* C4: for the empty message the result of
\* BaseCommitizen.validate_commit_message is (allow_abort, []), whatever
\* the pattern, allowed_prefixes (a list with the empty string included)
\* and max_msg_length are.
C4_EmptyMessageFollowsAllowAbort ==
    (Returned /\ OfBase /\ vIn.commit_msg = <<>>) =>
        vOut = <<vIn.allow_abort, <<>>>>

\* C4's case: the empty message is refused although the empty prefix is
\* allowed and there is no pattern
C4_Witness ==
    /\ Returned /\ OfBase /\ vIn.commit_msg = <<>>
    /\ vIn.allowed_prefixes = <<<<>>>>
    /\ IsNone(vIn.pattern)
    /\ ~vIn.allow_abort
    /\ vOut = <<FALSE, <<>>>>

---------------------------------------------------------------------------
(* Properties of the Check command, under Spec *)

\* the exclusive arguments that are given, an empty string being given too
GivenArgs ==
    {k \in {"commit_msg_file", "message", "rev_range"} : arguments[k] # None}

Constructed == pc # "new"
RaisedIs(class) == raised.class = class

\* C5: Check.__init__ raises InvalidCommandArgumentError exactly when more
\* than one of commit_msg_file, message and rev_range is given (an empty
\* string is given), or none is and standard input is a terminal; it does
\* so before any commit is read or validated.  With none given and standard
\* input not a terminal, construction succeeds and the text of standard
\* input is the message; with exactly one given the error is not raised.
C5_ExclusiveArguments ==
    Constructed =>
        /\ RaisedIs("InvalidCommandArgumentError")
               <=> \/ Cardinality(GivenArgs) > 1
                   \/ Cardinality(GivenArgs) = 0 /\ stdin.isatty
        /\ RaisedIs("InvalidCommandArgumentError")
               => /\ pc = "raised" /\ IsNone(cz)
                  /\ commits = <<>> /\ pattern = <<>> /\ checked = <<>>
                  /\ output = <<>>
        /\ (Cardinality(GivenArgs) = 0 /\ ~stdin.isatty)
               => /\ self.commit_msg = Some(stdin.text)
                  /\ StdinRest(stdin) = <<>>
        /\ Cardinality(GivenArgs) = 1
               => /\ self.commit_msg = arguments.message
                  /\ self.commit_msg_file = arguments.commit_msg_file
                  /\ self.rev_range = arguments.rev_range

\* C5's case: --message "" together with --rev-range is refused
C5_Witness ==
    /\ RaisedIs("InvalidCommandArgumentError")
    /\ arguments.message = Some(<<>>)
    /\ GivenArgs = {"message", "rev_range"}

\* the validation of commits[i] with the fields of the Check object
Outcome(i) ==
    Validate(Value(cz).cls, commits[i].message, Value(pattern), self.allow_abort,
             self.allowed_prefixes, self.max_msg_length)

\* the failed commits with their reasons, in the order of commits
RECURSIVE FailedFrom(_)
FailedFrom(i) ==
    IF i > Len(commits) THEN <<>>
    ELSE (IF Outcome(i)[1] THEN <<>> ELSE <<<<commits[i], Outcome(i)[2]>>>>)
             \o FailedFrom(i + 1)

Finished == pc = "done" \/ RaisedIs("InvalidCommitMessageError")

\* C6: __call__ validates every commit, the list given to
\* format_exception_message is the commits whose validation did not pass,
\* in their order, each once per occurrence and no passing commit among
\* them; InvalidCommitMessageError is raised exactly when that list is not
\* empty, the success is printed exactly when it is empty, never both.
C6_EveryFailureReported ==
    /\ Finished =>
        /\ commits # <<>>
        /\ Len(checked) = Len(commits)
        /\ \A i \in 1..Len(commits) : checked[i] = <<commits[i], Outcome(i)>>
        /\ ill_formated_commits = FailedFrom(1)
        /\ RaisedIs("InvalidCommitMessageError") <=> FailedFrom(1) # <<>>
        /\ output = <<SuccessText>> <=> FailedFrom(1) = <<>>
        /\ RaisedIs("InvalidCommitMessageError")
               => raised.message = Format(FailedFrom(1), Value(cz))
    /\ output # <<>> => pc = "done" /\ output = <<SuccessText>>
    /\ ~(RaisedIs("InvalidCommitMessageError") /\ output # <<>>)

\* C6's case: a failing commit, a passing one, and a second failing commit
\* with the message of the first
C6_Witness ==
    /\ RaisedIs("InvalidCommitMessageError")
    /\ Len(commits) = 3
    /\ ~checked[1][2][1] /\ checked[2][2][1] /\ ~checked[3][2][1]
    /\ commits[1].message = commits[3].message
    /\ Len(ill_formated_commits) = 2
    /\ ill_formated_commits[1][1] = commits[1]
    /\ ill_formated_commits[2][1] = commits[3]

\* C7: when the range has no commits, __call__ raises NoCommitsFoundError
\* whose message holds the range, before schema_pattern or
\* validate_commit_message is called, and neither InvalidCommitMessageError
\* nor the success follows.
C7_NoCommitsFound ==
    /\ RaisedIs("NoCommitsFoundError") =>
        /\ pc = "raised"
        /\ commits = <<>>
        /\ ~IsNone(self.rev_range)
        /\ Contains(raised.message, Value(self.rev_range))
        /\ pattern = <<>> /\ checked = <<>> /\ ill_formated_commits = <<>>
        /\ output = <<>>
    /\ (pc \in {"commits", "checking", "done"}
           \/ RaisedIs("InvalidCommitMessageError")
           \/ RaisedIs("NotImplementedError"))
       => commits # <<>>

\* C7's case: --rev-range with a range that has no commits
C7_Witness ==
    /\ RaisedIs("NoCommitsFoundError")
    /\ arguments.rev_range = Some(T_range)
    /\ self.rev_range = Some(T_range)

\* a passing result that no exemption explains: the message is empty, or
\* there is no pattern, or the length and the pattern are satisfied
PassesOnMerits(i) ==
    \/ commits[i].message = <<>>
    \/ IsNone(Value(pattern))
    \/ /\ self.max_msg_length = 0
          \/ ~FirstLineExceeds(commits[i].message, self.max_msg_length)
       /\ ReMatch(Value(Value(pattern)), commits[i].message)

\* C10: allowed_prefixes not given: the configured list is used; given as
\* the empty list: nothing is exempted, a message that starts with a
\* configured prefix is validated against length and pattern; given as a
\* non-empty list: that list is used and the configured one is not.
C10_AllowedPrefixesThreeWay ==
    Constructed =>
        /\ IsNone(arguments.allowed_prefixes)
               => self.allowed_prefixes = settings.allowed_prefixes
        /\ arguments.allowed_prefixes = Some(<<>>)
               => /\ self.allowed_prefixes = <<>>
                  /\ \A i \in 1..Len(checked) :
                        checked[i][2][1] => PassesOnMerits(i)
        /\ (~IsNone(arguments.allowed_prefixes)
               /\ arguments.allowed_prefixes # Some(<<>>))
               => /\ self.allowed_prefixes = Value(arguments.allowed_prefixes)
                  /\ \A i \in 1..Len(checked) :
                        checked[i][2][1] =>
                            \/ PassesOnMerits(i)
                            \/ Exempted(commits[i].message,
                                        Value(arguments.allowed_prefixes))

\* C10's case: the empty list is given, "Merge" is configured, and a
\* message that starts with "Merge" fails
C10_Witness ==
    /\ arguments.allowed_prefixes = Some(<<>>)
    /\ Exempted(T_merge, settings.allowed_prefixes)
    /\ Len(checked) = 1
    /\ StartsWith(checked[1][1].message, T_merge)
    /\ ~checked[1][2][1]

---------------------------------------------------------------------------
(* Properties of Check._filter_comments, under SpecFilter *)

\* the lines before the first line whose index is in stops (all of them
\* when stops is empty), without those that start with "#", joined
KeptBefore(lines, stops) ==
    LET last == IF stops = {} THEN Len(lines)
                ELSE (CHOOSE i \in stops : \A j \in stops : i <= j) - 1
        keep(line) == line = <<>> \/ line[1] # "#"
    IN  Join(<<"\n">>, SelectSeq(SubSeq(lines, 1, last), keep))

\* a line that holds the delimiter, and the indexes of the lines of a
\* text that are the delimiter, or hold it
HoldsDelimiter(line) ==
    \E i \in 1..Len(line) :
        /\ i + Len(Scissors) - 1 <= Len(line)
        /\ \A k \in 1..Len(Scissors) : line[i + k - 1] = Scissors[k]
ExactDelimiterLines(text) ==
    {i \in 1..Len(SplitLines(text)) : SplitLines(text)[i] = Scissors}
DelimiterLines(text) ==
    {i \in 1..Len(SplitLines(text)) : HoldsDelimiter(SplitLines(text)[i])}

\* C8 as stated: the result is the lines before the first line that is
\* exactly the delimiter, without the lines that start with "#", joined by
\* newline in their order; a line that is not exactly the delimiter does
\* not stop the scan.
C8_StopsAtExactDelimiter ==
    fPc = "returned" => fOut = KeptBefore(SplitLines(fIn), ExactDelimiterLines(fIn))

\* C8 amended: the scan stops at the first line that contains the
\* delimiter, with or without text before or after it; the result is the
\* lines before that line, without the lines that start with "#", joined
\* by newline in their order.
C8_StopsAtLineHoldingDelimiter ==
    fPc = "returned" => fOut = KeptBefore(SplitLines(fIn), DelimiterLines(fIn))

\* C8's case: a kept line, a comment, a line one dash short of the
\* delimiter, which is a comment and does not stop the scan, then the
\* delimiter with text before it, which does
C8_Witness ==
    /\ fPc = "returned"
    /\ LET lines == SplitLines(fIn)
       IN  /\ Len(lines) = 3
           /\ lines[1] = <<"x">>
           /\ ~HoldsDelimiter(lines[2]) /\ Len(lines[2]) = Len(Scissors) - 1
           /\ HoldsDelimiter(lines[3]) /\ lines[3] # Scissors
    /\ fOut = <<"x">>

\* a text none of whose lines starts with "#"
NoCommentLine(text) ==
    \A i \in 1..Len(SplitLines(text)) :
        SplitLines(text)[i] = <<>> \/ SplitLines(text)[i][1] # "#"

\* C11 as stated: filtering the filtered text gives the filtered text
\* again; in particular a text with no line that starts with "#" and no
\* line that is the delimiter is returned unchanged.
C11_IdempotentExactDelimiter ==
    /\ fPc = "refiltered" => fAgain = fOut
    /\ (fPc \in {"returned", "refiltered"} /\ NoCommentLine(fIn)
           /\ ExactDelimiterLines(fIn) = {})
       => fOut = fIn

\* C11 amended: filtering the filtered text gives the filtered text again;
\* in particular a text with no line that starts with "#" and no line that
\* contains the delimiter is returned unchanged.
C11_Idempotent ==
    /\ fPc = "refiltered" => fAgain = fOut
    /\ (fPc \in {"returned", "refiltered"} /\ NoCommentLine(fIn)
           /\ DelimiterLines(fIn) = {})
       => fOut = fIn
    /\ fPc \in {"returned", "refiltered"}
       => NoCommentLine(fOut) /\ DelimiterLines(fOut) = {}

\* C11's case: the first pass removed a comment and cut at the delimiter,
\* kept two lines, one of them empty, and the second pass changes nothing
C11_Witness ==
    /\ fPc = "refiltered"
    /\ ~NoCommentLine(fIn) /\ DelimiterLines(fIn) # {}
    /\ fOut = <<"\n", "x">>
    /\ fAgain = fOut

---------------------------------------------------------------------------
(* Properties of format_exception_message, under SpecFormat *)

\* C9: for every non-empty list of failed commits, the report of
\* BaseCommitizen's and of ValidationCz's formatter contains the revision
\* and the message of every commit of the list, whatever the number of
\* reasons of each.
C9_ReportNamesEveryCommit ==
    (rPc = "returned" /\ rIn.ill # <<>>) =>
        \A i \in 1..Len(rIn.ill) :
            /\ Contains(rOut, rIn.ill[i][1].rev)
            /\ Contains(rOut, rIn.ill[i][1].message)

===========================================================================
